---- MODULE Spec2Model ----
(***************************************************************************)
(* Model of the AWS provider client of vmclarity                           *)
(* (runtime_scan/pkg/provider/aws/client.go): Discover with its region     *)
(* resolution, filter compilation, paginated GetInstances and tag          *)
(* exclusion, and RunScanningJob.  The EC2 service is the environment: it  *)
(* answers DescribeRegions, DescribeInstances and RunInstances.            *)
(***************************************************************************)
EXTENDS Integers, Sequences, FiniteSets, TLC

VARIABLES
    pc,          \* position of the running operation
    extScope,    \* the scanScope argument of Discover
    fixture,     \* EC2: the instances of the account
    catalog,     \* EC2: the regions, each enabled or disabled for the account
    scope,       \* Discover: the converted *ScanScope
    regions,     \* Discover: the regions to scan
    ri, vi,      \* Discover: region index, VPC index (0: region-wide query)
    heap,        \* backing arrays of the []ec2types.Filter slices
    filters,     \* Discover: the base filter slice
    vpcFilters,  \* Discover: the slice of the current VPC iteration
    ret,         \* Discover: accumulated instances
    giRet,       \* GetInstances: accumulated instances
    outTok,      \* GetInstances: out.NextToken of the last page
    giCalls,     \* DescribeInstances calls of the current GetInstances
    giPages,     \* pages returned to the current GetInstances
    giState,     \* "idle" | "paging" | "returned" | "failed"
    queries,     \* the GetInstances calls Discover made so far
    ncalls,      \* number of EC2 calls issued
    nlist,       \* number of DescribeRegions calls among them
    nfail,       \* number of EC2 calls that failed
    npages,      \* number of pages EC2 returned to DescribeInstances calls
    result,      \* what Discover returned
    runIn,       \* RunScanningJob: its arguments
    launches,    \* RunInstances requests submitted
    runOut,      \* RunScanningJob: the RunInstancesOutput, once EC2 answered
    runResult,   \* what RunScanningJob returned
    exIn,        \* hasExcludeTags: its arguments
    exOut,       \* hasExcludeTags: its result
    dbTable,     \* the scan estimations table: the stored row of the one object
    reqs,        \* Save/UpdateScanEstimation: arguments and locals of each call
    writes       \* the DB.Save calls that succeeded, in the order the table took them

vars == <<pc, extScope, fixture, catalog, scope, regions, ri, vi, heap, filters,
          vpcFilters, ret, giRet, outTok, giCalls, giPages, giState, queries,
          ncalls, nlist, nfail, npages, result, runIn, launches, runOut,
          runResult, exIn, exOut, dbTable, reqs, writes>>

discoverVars == <<extScope, fixture, catalog, scope, regions, ri, vi, heap,
                  filters, vpcFilters, ret, giRet, outTok, giCalls, giPages,
                  giState, queries, ncalls, nlist, nfail, npages, result>>
runVars == <<runIn, launches, runOut, runResult>>
tagVars == <<exIn, exOut>>
dbVars == <<dbTable, reqs, writes>>

(***************************************************************************)
(* Bounds of the model.                                                    *)
(***************************************************************************)
MaxRegions == 2   \* longest explicit region list of a scope
MaxPages == 2     \* most pages EC2 cuts one query into
MaxSpare == 1     \* most spare capacity append leaves in a new array
MaxExclude == 2   \* longest exclude list handed to hasExcludeTags alone

(***************************************************************************)
(* Package-level values.                                                   *)
(***************************************************************************)
tagKey == "Owner"
tagVal == "VMClarity"
vmclarityTags == <<[Key |-> tagKey, Value |-> tagVal]>>
nameTagKey == "Name"
vpcIDFilterName == "vpc-id"
sgIDFilterName == "instance.group-id"
instanceStateFilterName == "instance-state-name"

SeqToSet(s) == {s[i] : i \in 1..Len(s)}

(***************************************************************************)
(* Scope conversion.  An optional list (pointer to a slice) is            *)
(* [isNil, elems]; an optional bool is "nil", "true" or "false".           *)
(***************************************************************************)
convertBool(all) == IF all # "nil" THEN all = "true" ELSE FALSE

convertTags(tags) ==
    IF tags.isNil THEN <<>>
    ELSE [i \in 1..Len(tags.elems) |->
            [Key |-> tags.elems[i].Key, Val |-> tags.elems[i].Value]]

convertSecurityGroups(securityGroups) ==
    IF securityGroups.isNil THEN <<>>
    ELSE [i \in 1..Len(securityGroups.elems) |-> [id |-> securityGroups.elems[i].Id]]

convertVPCs(vpcs) ==
    IF vpcs.isNil THEN <<>>
    ELSE [i \in 1..Len(vpcs.elems) |->
            [id |-> vpcs.elems[i].Id,
             securityGroups |-> convertSecurityGroups(vpcs.elems[i].SecurityGroups)]]

convertRegions(rs) ==
    IF rs.isNil THEN <<>>
    ELSE [i \in 1..Len(rs.elems) |->
            [name |-> rs.elems[i].Name, vpcs |-> convertVPCs(rs.elems[i].Vpcs)]]

convertScope(s) ==
    [AllRegions  |-> IF s.AllRegions # "nil" THEN s.AllRegions = "true" ELSE FALSE,
     Regions     |-> convertRegions(s.Regions),
     ScanStopped |-> convertBool(s.ShouldScanStoppedInstances),
     TagSelector |-> convertTags(s.InstanceTagSelector),
     ExcludeTags |-> convertTags(s.InstanceTagExclusion)]

(***************************************************************************)
(* Filter builders.                                                        *)
(***************************************************************************)

\* createInclusionTagsFilters walking the selector from its end
createInclusionTagsFiltersReversed(tags) ==
    [i \in 1..Len(tags) |->
        [Name |-> "tag:" \o tags[Len(tags) + 1 - i].Key,
         Values |-> <<tags[Len(tags) + 1 - i].Val>>]]

createInclusionTagsFilters(tags) ==
    [i \in 1..Len(tags) |->
        [Name |-> "tag:" \o tags[i].Key, Values |-> <<tags[i].Val>>]]

\* createInstanceStateFilters asking for stopped instances whatever the scope says
createInstanceStateFiltersStopped(scanStopped) ==
    <<[Name |-> instanceStateFilterName, Values |-> <<"running", "stopped">>]>>

createInstanceStateFilters(scanStopped) ==
    LET states == IF scanStopped THEN <<"running", "stopped">> ELSE <<"running">>
    IN  <<[Name |-> instanceStateFilterName, Values |-> states]>>

getVPCSecurityGroupsIDs(vpc) ==
    [i \in 1..Len(vpc.securityGroups) |-> vpc.securityGroups[i].id]

\* createVPCFilters without the test for an empty security group list
createVPCFiltersUnguarded(vpc) ==
    <<[Name |-> vpcIDFilterName, Values |-> <<vpc.id>>],
      [Name |-> sgIDFilterName, Values |-> getVPCSecurityGroupsIDs(vpc)]>>

createVPCFilters(vpc) ==
    LET sgs == getVPCSecurityGroupsIDs(vpc)
    IN  <<[Name |-> vpcIDFilterName, Values |-> <<vpc.id>>]>>
        \o (IF Len(sgs) > 0 THEN <<[Name |-> sgIDFilterName, Values |-> sgs]>>
            ELSE <<>>)

(***************************************************************************)
(* Go slices of filters.  A slice is [arr, len, cap] over a backing array  *)
(* of the heap; append writes in place when the capacity suffices and      *)
(* otherwise copies into a new array, whose capacity the runtime chooses   *)
(* (at least the new length; spare is what it adds).                       *)
(***************************************************************************)
ZeroFilter == [Name |-> "", Values |-> <<>>]
NilSlice == [arr |-> "nil", len |-> 0, cap |-> 0]
EmptyHeap == [a \in {"nil", "a1", "a3"} |-> <<>>]

SliceElems(h, s) == SubSeq(h[s.arr], 1, s.len)

GoAppend(h, s, elems, addr, spare) ==
    LET n == s.len + Len(elems)
    IN  IF n <= s.cap
        THEN [heap  |-> [h EXCEPT ![s.arr] =
                            [i \in 1..s.cap |->
                                IF i > s.len /\ i <= n THEN elems[i - s.len]
                                ELSE h[s.arr][i]]],
              slice |-> [s EXCEPT !.len = n]]
        ELSE [heap  |-> [h EXCEPT ![addr] =
                            [i \in 1..(n + spare) |->
                                IF i <= s.len THEN h[s.arr][i]
                                ELSE IF i <= n THEN elems[i - s.len]
                                ELSE ZeroFilter]],
              slice |-> [arr |-> addr, len |-> n, cap |-> n + spare]]

(***************************************************************************)
(* Tag exclusion.                                                          *)
(***************************************************************************)
RECURSIVE TagsMap(_)
\* instanceTagsMap after the loop over instanceTags: a later tag overwrites
TagsMap(instanceTags) ==
    IF Len(instanceTags) = 0 THEN <<>>
    ELSE LET front == TagsMap(SubSeq(instanceTags, 1, Len(instanceTags) - 1))
             last  == instanceTags[Len(instanceTags)]
             kept  == {i \in 1..Len(front) : front[i].Key # last.Key}
         IN  [i \in 1..Len(front) |->
                IF i \in kept THEN front[i] ELSE [front[i] EXCEPT !.Value = last.Value]]
             \o (IF kept = 1..Len(front) THEN <<last>> ELSE <<>>)

Lower(str) == CASE str = "Env" -> "env" [] str = "Prod" -> "prod" [] OTHER -> str

\* hasExcludeTags comparing keys and values with strings.EqualFold
hasExcludeTagsFold(excludeTags, instanceTags) ==
    LET instanceTagsMap == TagsMap(instanceTags)
    IN  IF Len(excludeTags) = 0 THEN FALSE
        ELSE IF Len(instanceTags) = 0 THEN FALSE
        ELSE \A i \in 1..Len(excludeTags) :
                \E j \in 1..Len(instanceTagsMap) :
                    /\ Lower(instanceTagsMap[j].Key) = Lower(excludeTags[i].Key)
                    /\ Lower(instanceTagsMap[j].Value) = Lower(excludeTags[i].Val)

\* hasExcludeTags with OR logic: one exclude tag on the instance is enough
hasExcludeTagsAny(excludeTags, instanceTags) ==
    LET instanceTagsMap == TagsMap(instanceTags)
    IN  \E i \in 1..Len(excludeTags) :
            \E j \in 1..Len(instanceTagsMap) :
                /\ instanceTagsMap[j].Key = excludeTags[i].Key
                /\ instanceTagsMap[j].Value = excludeTags[i].Val

hasExcludeTags(excludeTags, instanceTags) ==
    LET instanceTagsMap == TagsMap(instanceTags)
    IN  IF Len(excludeTags) = 0 THEN FALSE
        ELSE IF Len(instanceTags) = 0 THEN FALSE
        ELSE \A i \in 1..Len(excludeTags) :
                \E j \in 1..Len(instanceTagsMap) :
                    /\ instanceTagsMap[j].Key = excludeTags[i].Key
                    /\ instanceTagsMap[j].Value = excludeTags[i].Val

RECURSIVE getInstancesFromDescribeInstancesOutput(_, _, _)
getInstancesFromDescribeInstancesOutput(insts, excludeTags, regionID) ==
    IF Len(insts) = 0 THEN <<>>
    ELSE (IF hasExcludeTags(excludeTags, Head(insts).Tags) THEN <<>>
          ELSE <<[id |-> Head(insts).InstanceId, region |-> regionID]>>)
         \o getInstancesFromDescribeInstancesOutput(Tail(insts), excludeTags, regionID)

(***************************************************************************)
(* The EC2 service.  DescribeInstances answers with the instances of the   *)
(* queried region that satisfy every filter (one value of a filter is      *)
(* enough), cut into pages; a continuation token names the place the next  *)
(* page starts at.  DescribeRegions lists the regions enabled for the      *)
(* account, and the disabled ones too only when AllRegions is true.        *)
(***************************************************************************)
NoToken == [off |-> 0, page |-> 0]

FilterMatches(inst, f) ==
    \/ f.Name = instanceStateFilterName /\ inst.State \in SeqToSet(f.Values)
    \/ f.Name = vpcIDFilterName /\ inst.VpcId \in SeqToSet(f.Values)
    \/ f.Name = sgIDFilterName /\ inst.Groups \cap SeqToSet(f.Values) # {}
    \/ \E j \in 1..Len(inst.Tags) :
        /\ f.Name = "tag:" \o inst.Tags[j].Key
        /\ inst.Tags[j].Value \in SeqToSet(f.Values)

EC2Matching(fx, region, fs) ==
    LET Hit(inst) == /\ inst.Region = region
                     /\ \A k \in 1..Len(fs) : FilterMatches(inst, fs[k])
    IN  SelectSeq(fx, Hit)

EC2DescribeRegions(cat, AllRegions) ==
    LET Listed(r) == AllRegions = "true" \/ r.enabled
    IN  SelectSeq(cat, Listed)

(***************************************************************************)
(* Discover.                                                               *)
(***************************************************************************)
Failed(msg) == [status |-> "err", err |-> msg, instances |-> <<>>]
Succeeded(insts) == [status |-> "ok", err |-> "", instances |-> insts]
NoResult == [status |-> "none", err |-> "", instances |-> <<>>]

\* filters = append(filters, createVPCFilters(vpc)...): the base slice itself grows
AppendVPCFiltersOntoBase(h, f, vpc, spare) ==
    LET a == GoAppend(h, f, createVPCFilters(vpc), "a1", spare)
    IN  [heap |-> a.heap, vpcFilters |-> a.slice, filters |-> a.slice]

\* vpcFilters := append(filters, createVPCFilters(vpc)...)
AppendVPCFilters(h, f, vpc, spare) ==
    LET a == GoAppend(h, f, createVPCFilters(vpc), "a3", spare)
    IN  [heap       |-> IF a.slice.arr = "a3" THEN a.heap
                        ELSE [a.heap EXCEPT !["a3"] = <<>>],
         vpcFilters |-> a.slice,
         filters    |-> f]

\* the filters argument of the GetInstances call of iteration (i, j)
QueryFilters(f, vf, j) == IF j = 0 THEN f ELSE vf

\* every region entered with a region-wide query, its VPCs never visited
FirstViRegionWide(regs, i) == 0

FirstVi(regs, i) == IF i <= Len(regs) /\ Len(regs[i].vpcs) > 0 THEN 1 ELSE 0

\* the iteration after (i, j) of the loops over regions and their VPCs
NextPos(regs, i, j) ==
    IF j # 0 /\ j < Len(regs[i].vpcs) THEN <<i, j + 1>>
    ELSE <<i + 1, FirstVi(regs, i + 1)>>

\* iteration (i, j) up to its call of GetInstances, or the return of Discover
\* when the regions are exhausted
Iterate(h, f, regs, i, j, acc) ==
    IF i > Len(regs)
    THEN /\ pc' = "done"
         /\ result' = Succeeded(acc)
         /\ heap' = h
         /\ filters' = f
         /\ UNCHANGED <<ri, vi, vpcFilters, queries>>
    ELSE /\ pc' = "GetInstances"
         /\ ri' = i
         /\ vi' = j
         /\ UNCHANGED result
         /\ IF j = 0
            THEN /\ heap' = h
                 /\ filters' = f
                 /\ UNCHANGED vpcFilters
                 /\ queries' = Append(queries,
                        [Region |-> regs[i].name, Filters |-> SliceElems(h, f),
                         ri |-> i, vi |-> j])
            ELSE \* the capacity of a new vpcFilters array is never read: exact fit
                 LET a == AppendVPCFilters(h, f, regs[i].vpcs[j], 0)
                 IN  /\ heap' = a.heap
                     /\ filters' = a.filters
                     /\ vpcFilters' = a.vpcFilters
                     /\ queries' = Append(queries,
                            [Region |-> regs[i].name,
                             Filters |-> SliceElems(a.heap, a.vpcFilters),
                             ri |-> i, vi |-> j])

\* filters = append(filters, createInclusionTagsFilters(...)...)
\* filters = append(filters, createInstanceStateFilters(...)...)
\* (the array the second append leaves behind is garbage: its place is reused)
BaseFilters(sc, spare1, spare2) ==
    LET a == GoAppend(EmptyHeap, NilSlice,
                      createInclusionTagsFilters(sc.TagSelector), "a1", spare1)
    IN  GoAppend(a.heap, a.slice,
                 createInstanceStateFilters(sc.ScanStopped), "a1", spare2)

\* Discover without the zero-regions test
ScanRegionsUnchecked(sc, regs) ==
    \E spare1, spare2 \in 0..MaxSpare :
        LET b == BaseFilters(sc, spare1, spare2)
        IN  Iterate(b.heap, b.slice, regs, 1, FirstVi(regs, 1), <<>>)

\* Discover from the zero-regions test to the first GetInstances call
ScanRegions(sc, regs) ==
    IF Len(regs) = 0
    THEN /\ pc' = "done"
         /\ result' = Failed("no regions to scan")
         /\ UNCHANGED <<ri, vi, heap, filters, vpcFilters, queries>>
    ELSE \E spare1, spare2 \in 0..MaxSpare :
            LET b == BaseFilters(sc, spare1, spare2)
            IN  Iterate(b.heap, b.slice, regs, 1, FirstVi(regs, 1), <<>>)

\* Discover up to its first EC2 call
Discover ==
    /\ pc = "Discover"
    /\ UNCHANGED <<extScope, fixture, catalog, ret, giRet, outTok, giCalls,
                   giPages, giState, ncalls, nlist, nfail, npages,
                   runVars, tagVars, dbVars>>
    /\ IF ~extScope.isAws
       THEN /\ pc' = "done"
            /\ result' = Failed("failed to convert as aws scope")
            /\ UNCHANGED <<scope, regions, ri, vi, heap, filters, vpcFilters, queries>>
       ELSE LET sc == convertScope(extScope.aws)
            IN  /\ scope' = sc
                /\ IF sc.AllRegions
                   THEN /\ pc' = "ListAllRegions"
                        /\ UNCHANGED <<regions, ri, vi, heap, filters, vpcFilters,
                                       queries, result>>
                   ELSE /\ regions' = sc.Regions
                        /\ ScanRegions(sc, sc.Regions)

\* the DescribeRegionsInput of ListAllRegions
DescribeRegionsInput == [AllRegions |-> "nil"]

\* ListAllRegions with ret := make([]Region, len(out.Regions)) before the appends
ListAllRegionsPresized(out) ==
    [i \in 1..Len(out) |-> [name |-> "", vpcs |-> <<>>]]
    \o [i \in 1..Len(out) |-> [name |-> out[i].RegionName, vpcs |-> <<>>]]

\* the regions ListAllRegions builds from the output of DescribeRegions
ListAllRegions(out) == [i \in 1..Len(out) |-> [name |-> out[i].RegionName, vpcs |-> <<>>]]

DescribeRegionsOK ==
    /\ pc = "ListAllRegions"
    /\ ncalls' = ncalls + 1
    /\ nlist' = nlist + 1
    /\ LET regs == ListAllRegions(
                       EC2DescribeRegions(catalog, DescribeRegionsInput.AllRegions))
       IN  /\ regions' = regs
           /\ ScanRegions(scope, regs)
    /\ UNCHANGED <<extScope, fixture, catalog, scope, ret, giRet, outTok, giCalls,
                   giPages, giState, nfail, npages, runVars, tagVars, dbVars>>

\* a failed DescribeRegions issued once more before the error is returned
DescribeRegionsFailRetry ==
    /\ pc = "ListAllRegions"
    /\ ncalls' = ncalls + 1
    /\ nlist' = nlist + 1
    /\ nfail' = nfail + 1
    /\ IF nlist = 0
       THEN UNCHANGED <<pc, result>>
       ELSE /\ pc' = "done"
            /\ result' = Failed("failed to get regions to scan")
    /\ UNCHANGED <<extScope, fixture, catalog, scope, regions, ri, vi, heap, filters,
                   vpcFilters, ret, giRet, outTok, giCalls, giPages, giState,
                   queries, npages, runVars, tagVars, dbVars>>

DescribeRegionsFail ==
    /\ pc = "ListAllRegions"
    /\ ncalls' = ncalls + 1
    /\ nlist' = nlist + 1
    /\ nfail' = nfail + 1
    /\ pc' = "done"
    /\ result' = Failed("failed to get regions to scan")
    /\ UNCHANGED <<extScope, fixture, catalog, scope, regions, ri, vi, heap, filters,
                   vpcFilters, ret, giRet, outTok, giCalls, giPages, giState,
                   queries, npages, runVars, tagVars, dbVars>>

\* GetInstances never handing the token on
DescribeInstancesInputNoToken(h, qf, region, first, tok) ==
    [Region |-> region, Filters |-> SliceElems(h, qf), NextToken |-> NoToken]

\* the DescribeInstancesInput of the next call of GetInstances
DescribeInstancesInput(h, qf, region, first, tok) ==
    [Region    |-> region,
     Filters   |-> SliceElems(h, qf),
     NextToken |-> IF first THEN NoToken ELSE tok]

\* one DescribeInstances call of GetInstances that EC2 answers with a page; on
\* the page without token GetInstances returns and Discover goes on
DescribeInstancesOK ==
    /\ pc = "GetInstances"
    /\ LET first  == giState # "paging"
           region == regions[ri].name
           call   == DescribeInstancesInput(heap, QueryFilters(filters, vpcFilters, vi),
                                            region, first, outTok)
           M      == EC2Matching(fixture, call.Region, call.Filters)
           off    == call.NextToken.off
           acc    == IF first THEN <<>> ELSE giRet
       IN  \E c \in 0..(Len(M) - off), more \in BOOLEAN :
            /\ more => call.NextToken.page + 1 < MaxPages
            /\ ~more => c = Len(M) - off
            /\ LET page == [Instances |-> SubSeq(M, off + 1, off + c),
                            NextToken |-> IF more
                                          THEN [off |-> off + c,
                                                page |-> call.NextToken.page + 1]
                                          ELSE NoToken]
                   acc2 == acc \o getInstancesFromDescribeInstancesOutput(
                                      page.Instances, scope.ExcludeTags, region)
                   pos  == NextPos(regions, ri, vi)
               IN  /\ giCalls' = (IF first THEN <<>> ELSE giCalls)
                                  \o <<[in |-> call, ri |-> ri, vi |-> vi]>>
                   /\ giPages' = (IF first THEN <<>> ELSE giPages) \o <<page>>
                   /\ giRet' = acc2
                   /\ outTok' = page.NextToken
                   /\ ncalls' = ncalls + 1
                   /\ npages' = npages + 1
                   /\ IF page.NextToken # NoToken
                      THEN /\ giState' = "paging"
                           /\ UNCHANGED <<pc, ri, vi, heap, filters, vpcFilters, ret,
                                          queries, result>>
                      ELSE /\ giState' = "returned"
                           /\ ret' = ret \o acc2
                           /\ Iterate(heap, filters, regions, pos[1], pos[2],
                                      ret \o acc2)
    /\ UNCHANGED <<extScope, fixture, catalog, scope, regions, nlist, nfail,
                   runVars, tagVars, dbVars>>

\* a failed page answered with what Discover gathered so far
DescribeInstancesFailPartial ==
    /\ pc = "GetInstances"
    /\ giState' = "failed"
    /\ ncalls' = ncalls + 1
    /\ nfail' = nfail + 1
    /\ pc' = "done"
    /\ result' = [status |-> "err", err |-> "failed to get instances",
                  instances |-> ret \o giRet]
    /\ UNCHANGED <<extScope, fixture, catalog, scope, regions, ri, vi, heap, filters,
                   vpcFilters, ret, giRet, outTok, giCalls, giPages, queries,
                   nlist, npages, runVars, tagVars, dbVars>>

DescribeInstancesFail ==
    /\ pc = "GetInstances"
    /\ LET first == giState # "paging"
           call  == DescribeInstancesInput(heap, QueryFilters(filters, vpcFilters, vi),
                                           regions[ri].name, first, outTok)
       IN  /\ giCalls' = (IF first THEN <<>> ELSE giCalls)
                          \o <<[in |-> call, ri |-> ri, vi |-> vi]>>
           /\ giPages' = IF first THEN <<>> ELSE giPages
    /\ giState' = "failed"
    /\ ncalls' = ncalls + 1
    /\ nfail' = nfail + 1
    /\ pc' = "done"
    /\ result' = Failed("failed to get instances")
    /\ UNCHANGED <<extScope, fixture, catalog, scope, regions, ri, vi, heap, filters,
                   vpcFilters, ret, giRet, outTok, queries, nlist, npages,
                   runVars, tagVars, dbVars>>

(***************************************************************************)
(* Inputs of Discover: the scopes, and the account EC2 answers from.       *)
(***************************************************************************)
Nil == [isNil |-> TRUE, elems |-> <<>>]
List(s) == [isNil |-> FALSE, elems |-> s]

XTag(k, v) == [Key |-> k, Value |-> v]
XVpc(id, sgs) == [Id |-> id, SecurityGroups |-> sgs]
XSg(id) == [Id |-> id]

ExtTagLists ==
    {Nil, List(<<XTag("env", "prod")>>),
     List(<<XTag("env", "prod"), XTag("team", "sec")>>)}

XRegionV2 ==
    [Name |-> "r2", Vpcs |-> List(<<XVpc("v2", List(<<XSg("s2"), XSg("s1")>>)),
                                    XVpc("v1", List(<<>>)),
                                    XVpc("v1", List(<<>>))>>)]

ExtRegionPool ==
    {[Name |-> "r1", Vpcs |-> Nil],
     [Name |-> "r2", Vpcs |-> List(<<>>)],
     [Name |-> "r1", Vpcs |-> List(<<XVpc("v1", Nil), XVpc("v2", List(<<XSg("s1")>>))>>)],
     XRegionV2}

RECURSIVE SeqsUpTo(_, _)
SeqsUpTo(S, n) ==
    IF n = 0 THEN {<<>>}
    ELSE LET shorter == SeqsUpTo(S, n - 1)
         IN  shorter \cup {Append(q, x) : q \in shorter, x \in S}

ExtRegionLists == {Nil} \cup {List(q) : q \in SeqsUpTo(ExtRegionPool, MaxRegions)}

ExtBools == {"nil", "true", "false"}

Inst(id, region, vpc, groups, state, tags) ==
    [InstanceId |-> id, Region |-> region, VpcId |-> vpc, Groups |-> groups,
     State |-> state, Tags |-> tags]

Account ==
    <<Inst("i1", "r1", "v1", {"s1"}, "running", <<XTag("env", "prod")>>),
      Inst("i2", "r1", "v2", {"s1", "s2"}, "stopped",
           <<XTag("env", "prod"), XTag("team", "sec")>>),
      Inst("i3", "r1", "v2", {"s2"}, "running",
           <<XTag("team", "sec"), XTag("env", "prod")>>),
      Inst("i1", "r2", "v2", {"s2"}, "running",
           <<XTag("env", "dev"), XTag("team", "sec")>>),
      Inst("i4", "r2", "v1", {"s3"}, "running", <<>>),
      Inst("i5", "r2", "v1", {"s1"}, "terminated", <<XTag("env", "prod")>>)>>

Fixtures == {<<>>, Account}

FullCatalog ==
    <<[RegionName |-> "r1", enabled |-> TRUE],
      [RegionName |-> "r3", enabled |-> FALSE],
      [RegionName |-> "r2", enabled |-> TRUE]>>

Catalogs == {<<>>, FullCatalog}

ExtScopes ==
    {[isAws |-> TRUE,
      aws   |-> [AllRegions |-> a, Regions |-> r, ShouldScanStoppedInstances |-> st,
                 InstanceTagSelector |-> sel, InstanceTagExclusion |-> ex]] :
        a \in ExtBools, r \in ExtRegionLists, st \in ExtBools,
        sel \in ExtTagLists, ex \in ExtTagLists}

NotAwsScope ==
    [isAws |-> FALSE,
     aws   |-> [AllRegions |-> "nil", Regions |-> Nil,
                ShouldScanStoppedInstances |-> "nil",
                InstanceTagSelector |-> Nil, InstanceTagExclusion |-> Nil]]

RunIdle ==
    /\ runIn = [region |-> "", id |-> ""]
    /\ launches = <<>>
    /\ runOut = [Instances |-> <<>>]
    /\ runResult = [status |-> "none"]

DBIdle ==
    /\ dbTable = <<>>
    /\ reqs = <<>>
    /\ writes = <<>>

TagsIdle ==
    /\ exIn = [excludeTags |-> <<>>, instanceTags |-> <<>>]
    /\ exOut = "none"

DiscoverIdle ==
    /\ extScope = NotAwsScope
    /\ fixture = <<>>
    /\ catalog = <<>>
    /\ scope = convertScope(NotAwsScope.aws)
    /\ regions = <<>>
    /\ ri = 0
    /\ vi = 0
    /\ heap = EmptyHeap
    /\ filters = NilSlice
    /\ vpcFilters = NilSlice
    /\ ret = <<>>
    /\ giRet = <<>>
    /\ outTok = NoToken
    /\ giCalls = <<>>
    /\ giPages = <<>>
    /\ giState = "idle"
    /\ queries = <<>>
    /\ ncalls = 0
    /\ nlist = 0
    /\ nfail = 0
    /\ npages = 0
    /\ result = NoResult

Init ==
    /\ pc = "Discover"
    /\ extScope \in ExtScopes \cup {NotAwsScope}
    /\ fixture \in Fixtures
    /\ catalog \in Catalogs
    \* the catalog is read only under all_regions, the explicit regions otherwise
    /\ extScope.aws.AllRegions = "true" =>
            extScope.aws.Regions \in {Nil, List(<<XRegionV2>>)}
    /\ extScope.aws.AllRegions # "true" => catalog = FullCatalog
    /\ extScope.aws.AllRegions = "nil" <=> extScope.aws.ShouldScanStoppedInstances = "nil"
    /\ ~extScope.isAws => fixture = <<>>
    /\ scope = convertScope(NotAwsScope.aws)
    /\ regions = <<>>
    /\ ri = 0
    /\ vi = 0
    /\ heap = EmptyHeap
    /\ filters = NilSlice
    /\ vpcFilters = NilSlice
    /\ ret = <<>>
    /\ giRet = <<>>
    /\ outTok = NoToken
    /\ giCalls = <<>>
    /\ giPages = <<>>
    /\ giState = "idle"
    /\ queries = <<>>
    /\ ncalls = 0
    /\ nlist = 0
    /\ nfail = 0
    /\ npages = 0
    /\ result = NoResult
    /\ RunIdle
    /\ TagsIdle
    /\ DBIdle

Next ==
    \/ Discover
    \/ DescribeRegionsOK
    \/ DescribeRegionsFail
    \/ DescribeInstancesOK
    \/ DescribeInstancesFail

Spec == Init /\ [][Next]_vars

(***************************************************************************)
(* hasExcludeTags on its own: every exclude list against every tag list an *)
(* instance can carry (EC2 keeps the keys of one resource distinct).       *)
(***************************************************************************)
ExcludePool ==
    {[Key |-> "env", Val |-> "prod"], [Key |-> "env", Val |-> "Prod"],
     [Key |-> "Env", Val |-> "prod"], [Key |-> "team", Val |-> "sec"]}

ExcludeLists == SeqsUpTo(ExcludePool, MaxExclude)

OneKey(k, vals) == {<<>>} \cup {<<XTag(k, v)>> : v \in vals}

InstanceTagLists ==
    LET lists == {a \o b \o c : a \in OneKey("env", {"prod", "Prod"}),
                                b \in OneKey("Env", {"prod"}),
                                c \in OneKey("team", {"sec", "prod"})}
    IN  lists \cup {[i \in 1..Len(q) |-> q[Len(q) + 1 - i] ] : q \in lists}

InitTags ==
    /\ pc = "hasExcludeTags"
    /\ exIn \in [excludeTags : ExcludeLists, instanceTags : InstanceTagLists]
    /\ exOut = "none"
    /\ DiscoverIdle
    /\ RunIdle
    /\ DBIdle

HasExcludeTags ==
    /\ pc = "hasExcludeTags"
    /\ exOut' = IF hasExcludeTags(exIn.excludeTags, exIn.instanceTags)
                THEN "true" ELSE "false"
    /\ pc' = "done"
    /\ UNCHANGED <<exIn, discoverVars, runVars, dbVars>>

NextTags == HasExcludeTags

SpecTags == InitTags /\ [][NextTags]_vars

(***************************************************************************)
(* RunScanningJob.                                                         *)
(***************************************************************************)
awsConfig == [AmiID |-> "ami-1", SubnetID |-> "subnet-1", SecurityGroupID |-> "sg-scanner"]

\* the bootstrap payload: what the instance is to run, as one text
GenerateCloudInit(data) == [cloudInit |-> data]

\* base64.StdEncoding.EncodeToString
Base64(userData) == [base64 |-> userData]

\* createInstanceTags without the ownership tags
createInstanceTagsNameOnly(id) ==
    <<[Key |-> nameTagKey, Value |-> "vmclarity-scanner-" \o id]>>

createInstanceTags(id) ==
    LET nameTagValue == "vmclarity-scanner-" \o id
    IN  vmclarityTags \o <<[Key |-> nameTagKey, Value |-> nameTagValue]>>

\* the request with the instance's tags on the volume too
RunInstancesInputVolumeNamed(region, id, config) ==
    [Region            |-> region,
     ImageId           |-> awsConfig.AmiID,
     InstanceType      |-> "t2.large",
     TagSpecifications |->
        <<[ResourceType |-> "instance", Tags |-> createInstanceTags(id)],
          [ResourceType |-> "volume", Tags |-> createInstanceTags(id)]>>,
     UserData          |-> Base64(GenerateCloudInit(
                               [ScannerCLIConfig |-> config.ScannerCLIConfig,
                                ScannerImage |-> config.ScannerImage,
                                ServerAddress |-> config.VMClarityAddress,
                                ScanResultID |-> config.ScanResultID])),
     NetworkInterfaces |->
        <<[AssociatePublicIpAddress |-> FALSE, DeleteOnTermination |-> TRUE,
           Groups |-> <<awsConfig.SecurityGroupID>>,
           SubnetId |-> awsConfig.SubnetID]>>,
     KeyName           |-> IF config.KeyPairName # ""
                           THEN [isNil |-> FALSE, name |-> config.KeyPairName]
                           ELSE [isNil |-> TRUE, name |-> ""]]

\* the request with the key-pair field set whatever the configuration says
RunInstancesInputKeyAlways(region, id, config) ==
    [Region            |-> region,
     ImageId           |-> awsConfig.AmiID,
     InstanceType      |-> "t2.large",
     TagSpecifications |->
        <<[ResourceType |-> "instance", Tags |-> createInstanceTags(id)],
          [ResourceType |-> "volume", Tags |-> vmclarityTags]>>,
     UserData          |-> Base64(GenerateCloudInit(
                               [ScannerCLIConfig |-> config.ScannerCLIConfig,
                                ScannerImage |-> config.ScannerImage,
                                ServerAddress |-> config.VMClarityAddress,
                                ScanResultID |-> config.ScanResultID])),
     NetworkInterfaces |->
        <<[AssociatePublicIpAddress |-> FALSE, DeleteOnTermination |-> TRUE,
           Groups |-> <<awsConfig.SecurityGroupID>>,
           SubnetId |-> awsConfig.SubnetID]>>,
     KeyName           |-> [isNil |-> FALSE, name |-> config.KeyPairName]]

\* the RunInstancesInput RunScanningJob builds, and the region of the call
RunInstancesInput(region, id, config) ==
    [Region            |-> region,
     ImageId           |-> awsConfig.AmiID,
     InstanceType      |-> "t2.large",
     TagSpecifications |->
        <<[ResourceType |-> "instance", Tags |-> createInstanceTags(id)],
          [ResourceType |-> "volume", Tags |-> vmclarityTags]>>,
     UserData          |-> Base64(GenerateCloudInit(
                               [ScannerCLIConfig |-> config.ScannerCLIConfig,
                                ScannerImage |-> config.ScannerImage,
                                ServerAddress |-> config.VMClarityAddress,
                                ScanResultID |-> config.ScanResultID])),
     NetworkInterfaces |->
        <<[AssociatePublicIpAddress |-> FALSE, DeleteOnTermination |-> TRUE,
           Groups |-> <<awsConfig.SecurityGroupID>>,
           SubnetId |-> awsConfig.SubnetID]>>,
     KeyName           |-> IF config.KeyPairName # ""
                           THEN [isNil |-> FALSE, name |-> config.KeyPairName]
                           ELSE [isNil |-> TRUE, name |-> ""]]

JobConfigs ==
    [ScannerCLIConfig : {"cli"}, ScannerImage : {"image"},
     VMClarityAddress : {"server:8888"}, ScanResultID : {"sr1", "sr2"},
     KeyPairName : {"", "k1"}]

NoHandle == [status |-> "none", err |-> "", id |-> "", region |-> "",
             availabilityZone |-> ""]

InitRun ==
    /\ pc = "RunScanningJob"
    /\ runIn \in [region : {"r1", "r2"}, id : {"", "t1", "t2"}, config : JobConfigs]
    /\ launches = <<>>
    /\ runOut = [Instances |-> <<>>]
    /\ runResult = NoHandle
    /\ DiscoverIdle
    /\ TagsIdle
    /\ DBIdle

GenerateCloudInitFail ==
    /\ pc = "RunScanningJob"
    /\ pc' = "done"
    /\ runResult' = [NoHandle EXCEPT !.status = "err",
                                     !.err = "failed to generate cloud-init"]
    /\ UNCHANGED <<runIn, launches, runOut, discoverVars, tagVars, dbVars>>

GenerateCloudInitOK ==
    /\ pc = "RunScanningJob"
    /\ pc' = "RunInstances"
    /\ UNCHANGED <<runVars, discoverVars, tagVars, dbVars>>

\* what EC2 answers a RunInstances of MinCount = MaxCount = 1 with: the one
\* instance launched, with its id and placement
RunInstancesOutputs ==
    {[Instances |-> <<[InstanceId |-> iid,
                       Placement  |-> [AvailabilityZone |-> az]]>>] :
        iid \in {"i-a", "i-b"}, az \in {"az1", "az2"}}

\* the handle of a launch, with the region left to the client's default
InstanceImplNoRegion(out, region) ==
    [status |-> "ok", err |-> "",
     id               |-> out.Instances[1].InstanceId,
     region           |-> "",
     availabilityZone |-> out.Instances[1].Placement.AvailabilityZone]

\* the handle RunScanningJob returns for the output of RunInstances
InstanceImpl(out, region) ==
    [status |-> "ok", err |-> "",
     id               |-> out.Instances[1].InstanceId,
     region           |-> region,
     availabilityZone |-> out.Instances[1].Placement.AvailabilityZone]

RunInstancesOK ==
    /\ pc = "RunInstances"
    /\ launches' = Append(launches, RunInstancesInput(runIn.region, runIn.id, runIn.config))
    /\ \E out \in RunInstancesOutputs :
        /\ runOut' = out
        /\ runResult' = InstanceImpl(out, runIn.region)
    /\ pc' = "done"
    /\ UNCHANGED <<runIn, discoverVars, tagVars, dbVars>>

\* a failed launch submitted once more before the error is returned
RunInstancesFailRetry ==
    /\ pc = "RunInstances"
    /\ launches' = Append(launches, RunInstancesInput(runIn.region, runIn.id, runIn.config))
    /\ IF Len(launches) = 0
       THEN UNCHANGED <<pc, runResult>>
       ELSE /\ runResult' = [NoHandle EXCEPT !.status = "err",
                                             !.err = "failed to run instances"]
            /\ pc' = "done"
    /\ UNCHANGED <<runIn, runOut, discoverVars, tagVars, dbVars>>

RunInstancesFail ==
    /\ pc = "RunInstances"
    /\ launches' = Append(launches, RunInstancesInput(runIn.region, runIn.id, runIn.config))
    /\ runResult' = [NoHandle EXCEPT !.status = "err", !.err = "failed to run instances"]
    /\ pc' = "done"
    /\ UNCHANGED <<runIn, runOut, discoverVars, tagVars, dbVars>>

NextRun ==
    \/ GenerateCloudInitFail
    \/ GenerateCloudInitOK
    \/ RunInstancesOK
    \/ RunInstancesFail

SpecRun == InitRun /\ [][NextRun]_vars

(***************************************************************************)
(* Properties of Discover.                                                 *)
(***************************************************************************)

(***************************************************************************)
(* The client: one invocation of Discover or of RunScanningJob.            *)
(***************************************************************************)

(***************************************************************************)
(* The scan estimations table (pkg/apiserver/database/gorm/                *)
(* scan_estimation.go).  The API server serves every request on a          *)
(* goroutine of its own, so calls of SaveScanEstimation and                *)
(* UpdateScanEstimation run concurrently; each DB statement is atomic, and *)
(* a call is three steps: the read of the stored row, the check and the    *)
(* computation of the new row on the call's own copy, and DB.Save.         *)
(***************************************************************************)
NumCalls == 2

Calls == 1..NumCalls

\* strconv.Itoa on the revisions of the model
Itoa(n) == IF n = 0 THEN "0" ELSE <<"1", "2", "3", "4", "5", "6", "7", "8", "9">>[n]

\* the row CreateScanEstimation stored: a new id, revision 1
Created == [Id |-> "e1", Revision |-> 1, State |-> "Pending", Estimation |-> "nil"]

\* a field left out of an object: a nil pointer ("nil"; NilRevision for the
\* revision, which is a number from 1 on when it is there)
NilRevision == 0
Absent(f) == IF f = "Revision" THEN NilRevision ELSE "nil"

\* nil when the If-Match header is absent or names the revision read
checkRevisionEtag(ifMatch, revision) ==
    IF ifMatch = "nil" THEN "nil"
    ELSE IF revision = NilRevision THEN "PreconditionFailed"
    ELSE IF ifMatch # Itoa(revision) THEN "PreconditionFailed"
    ELSE "nil"

bumpRevision(revision) == IF revision = NilRevision THEN 1 ELSE revision + 1

\* the stored object with the fields the patch sets laid over it
patchObject(data, patch) ==
    [f \in DOMAIN data |-> IF patch[f] # Absent(f) THEN patch[f] ELSE data[f]]

\* the row of the id, or record not found
getExistingObjByID(table, id) ==
    IF id \in DOMAIN table THEN [err |-> "nil", Data |-> table[id]]
    ELSE [err |-> "NotFound", Data |-> "nil"]

NoObj == "nil"

ScanEstimations ==
    [Id : {"e1", "e2", ""}, Revision : {NilRevision},
     State : {"Done", "nil"}, Estimation : {"est", "nil"}]

Requests ==
    [op : {"Save", "Update"}, scanEstimation : ScanEstimations,
     IfMatch : {"nil", "1", "2"}, pc : {"start"}, dbObj : {NoObj}, err : {"nil"}]

InitDB ==
    /\ pc = "requests"
    /\ dbTable = [id \in {"e1"} |-> Created]
    /\ reqs \in [Calls -> Requests]
    \* a body sets one field; the calls are told apart by what they ask for
    /\ \A p \in Calls :
        (reqs[p].scanEstimation.State = "nil") #
        (reqs[p].scanEstimation.Estimation = "nil")
    /\ \A p \in Calls : reqs[p].scanEstimation.Id # "e1" => reqs[p].IfMatch = "nil"
    /\ writes = <<>>
    /\ DiscoverIdle
    /\ RunIdle
    /\ TagsIdle

Return(p, err) ==
    reqs' = [reqs EXCEPT ![p].pc = "done", ![p].err = err]

\* the id test and the read of the stored row, of both operations
ReadExisting(p) ==
    /\ reqs[p].pc = "start"
    /\ IF reqs[p].scanEstimation.Id \in {"nil", ""}
       THEN Return(p, "BadRequest")
       ELSE LET got == getExistingObjByID(dbTable, reqs[p].scanEstimation.Id)
            IN  IF got.err # "nil" THEN Return(p, got.err)
                ELSE reqs' = [reqs EXCEPT ![p].pc = "check", ![p].dbObj = got.Data]
    /\ UNCHANGED <<pc, dbTable, writes, discoverVars, runVars, tagVars>>

\* DB.Save: the row of the object's id replaced by the call's copy
DBSave(p) ==
    /\ reqs[p].pc = "save"
    /\ dbTable' = [dbTable EXCEPT ![reqs[p].dbObj.Id] = reqs[p].dbObj]
    /\ writes' = Append(writes,
            [call    |-> p,
             IfMatch |-> reqs[p].IfMatch,
             before  |-> dbTable[reqs[p].dbObj.Id],
             stored  |-> reqs[p].dbObj])
    /\ Return(p, "nil")
    /\ UNCHANGED <<pc, discoverVars, runVars, tagVars>>

SaveScanEstimationRead(p) == reqs[p].op = "Save" /\ ReadExisting(p)

\* the revision check, the bump and the new row: the body as given
SaveScanEstimationCheck(p) ==
    /\ reqs[p].op = "Save"
    /\ reqs[p].pc = "check"
    /\ LET dbScanEstimation == reqs[p].dbObj
           err == checkRevisionEtag(reqs[p].IfMatch, dbScanEstimation.Revision)
       IN  IF err # "nil" THEN Return(p, err)
           ELSE reqs' = [reqs EXCEPT
                    ![p].pc = "save",
                    ![p].dbObj = [reqs[p].scanEstimation EXCEPT
                        !.Revision = bumpRevision(dbScanEstimation.Revision)]]
    /\ UNCHANGED <<pc, dbTable, writes, discoverVars, runVars, tagVars>>

SaveScanEstimationSave(p) == reqs[p].op = "Save" /\ DBSave(p)

UpdateScanEstimationRead(p) == reqs[p].op = "Update" /\ ReadExisting(p)

\* the revision check, the bump and the new row: the row read, patched
UpdateScanEstimationCheck(p) ==
    /\ reqs[p].op = "Update"
    /\ reqs[p].pc = "check"
    /\ LET dbScanEstimation == reqs[p].dbObj
           err == checkRevisionEtag(reqs[p].IfMatch, dbScanEstimation.Revision)
       IN  IF err # "nil" THEN Return(p, err)
           ELSE reqs' = [reqs EXCEPT
                    ![p].pc = "save",
                    ![p].dbObj = patchObject(dbScanEstimation,
                        [reqs[p].scanEstimation EXCEPT
                            !.Revision = bumpRevision(dbScanEstimation.Revision)])]
    /\ UNCHANGED <<pc, dbTable, writes, discoverVars, runVars, tagVars>>

UpdateScanEstimationSave(p) == reqs[p].op = "Update" /\ DBSave(p)

NextDB ==
    \E p \in Calls :
        \/ SaveScanEstimationRead(p)
        \/ SaveScanEstimationCheck(p)
        \/ SaveScanEstimationSave(p)
        \/ UpdateScanEstimationRead(p)
        \/ UpdateScanEstimationCheck(p)
        \/ UpdateScanEstimationSave(p)

SpecDB == InitDB /\ [][NextDB]_vars

(***************************************************************************)
(* Discover with every EC2 call answered: a call that has been issued      *)
(* returns, with an output or an error, so the step after it is taken.     *)
(* (That a query's pages end is in DescribeInstancesOK: EC2 returns at     *)
(* most MaxPages pages per query.)                                         *)
(***************************************************************************)
\* termination does not depend on the tags: scopes without tag lists
InitLive ==
    /\ Init
    /\ extScope.aws.InstanceTagSelector = Nil
    /\ extScope.aws.InstanceTagExclusion = Nil

SpecLive == InitLive /\ [][Next]_vars /\ WF_vars(Next)

InitClient == Init \/ InitRun

NextClient == Next \/ NextRun

SpecClient == InitClient /\ [][NextClient]_vars

Returned == pc = "done" /\ result.status = "ok"

XScope == extScope.aws
XAllRegions == XScope.AllRegions = "true"

\* the fixture filtered by hand against the scope as given
InScopedPlace(inst) ==
    IF XAllRegions
    THEN \E k \in 1..Len(catalog) : catalog[k].RegionName = inst.Region
    ELSE \E k \in 1..Len(XScope.Regions.elems) :
            LET r == XScope.Regions.elems[k]
            IN  /\ r.Name = inst.Region
                /\ \/ Len(r.Vpcs.elems) = 0
                   \/ \E j \in 1..Len(r.Vpcs.elems) :
                        LET v == r.Vpcs.elems[j]
                        IN  /\ v.Id = inst.VpcId
                            /\ \/ Len(v.SecurityGroups.elems) = 0
                               \/ \E g \in 1..Len(v.SecurityGroups.elems) :
                                    v.SecurityGroups.elems[g].Id \in inst.Groups

InAllowedState(inst) ==
    \/ inst.State = "running"
    \/ XScope.ShouldScanStoppedInstances = "true" /\ inst.State = "stopped"

Carries(inst, t) == \E j \in 1..Len(inst.Tags) : inst.Tags[j] = t

Selected(inst) ==
    \A t \in SeqToSet(XScope.InstanceTagSelector.elems) : Carries(inst, t)

Excluded(inst) ==
    /\ Len(XScope.InstanceTagExclusion.elems) > 0
    /\ \A t \in SeqToSet(XScope.InstanceTagExclusion.elems) : Carries(inst, t)

ManualMatch(inst) ==
    InScopedPlace(inst) /\ InAllowedState(inst) /\ Selected(inst) /\ ~Excluded(inst)

ManualSet ==
    {[id |-> inst.InstanceId, region |-> inst.Region] :
        inst \in {x \in SeqToSet(fixture) : ManualMatch(x)}}

\* C1: the set of instances a successful Discover returns is the fixture
\* filtered by hand: in a scoped region (and one of its listed VPCs and their
\* security groups), in an allowed state, carrying every selector tag, and
\* not excluded.
C1_RoundTrip == Returned => SeqToSet(result.instances) = ManualSet

C1_Witness ==
    /\ Returned
    /\ Len(XScope.InstanceTagSelector.elems) > 0
    /\ Len(XScope.InstanceTagExclusion.elems) > 0
    /\ \E k \in 1..Len(regions) : Len(regions[k].vpcs) > 0
    /\ result.instances # <<>>
    /\ \E x \in SeqToSet(fixture) :
        InScopedPlace(x) /\ InAllowedState(x) /\ Selected(x) /\ Excluded(x)

ExpectedBase ==
    createInclusionTagsFilters(scope.TagSelector)
    \o createInstanceStateFilters(scope.ScanStopped)

ExpectedFilters(i, j) ==
    ExpectedBase \o (IF j = 0 THEN <<>> ELSE createVPCFilters(regions[i].vpcs[j]))

\* C3: every query carries exactly the base filters followed by the filters
\* of the VPC being queried (none for a region-wide query), and the base
\* filter slice holds the elements it was built with after every iteration.
C3_FilterIsolation ==
    /\ \A q \in 1..Len(queries) :
        /\ queries[q].Filters = ExpectedFilters(queries[q].ri, queries[q].vi)
        /\ queries[q].vi = 0 <=> Len(regions[queries[q].ri].vpcs) = 0
    /\ \A c \in 1..Len(giCalls) :
        giCalls[c].in.Filters = ExpectedFilters(giCalls[c].ri, giCalls[c].vi)
    /\ Len(queries) > 0 => SliceElems(heap, filters) = ExpectedBase

\* a VPC's filters appended in place, into the spare capacity of the base
\* array, over those of the VPC before
C3_Witness ==
    /\ giState = "paging"
    /\ vi > 1
    /\ vpcFilters.arr = filters.arr
    /\ Len(scope.TagSelector) = 2
    /\ Len(regions[ri].vpcs[vi - 1].securityGroups) = 0
    /\ Len(giCalls) = 1

RECURSIVE Survivors(_, _)
\* the instances of a page that are not excluded, by hand
Survivors(insts, region) ==
    IF Len(insts) = 0 THEN <<>>
    ELSE (IF Excluded(Head(insts)) THEN <<>>
          ELSE <<[id |-> Head(insts).InstanceId, region |-> region]>>)
         \o Survivors(Tail(insts), region)

RECURSIVE SurvivorsOfPages(_, _)
SurvivorsOfPages(pages, region) ==
    IF Len(pages) = 0 THEN <<>>
    ELSE Survivors(Head(pages).Instances, region)
         \o SurvivorsOfPages(Tail(pages), region)

\* C4: one GetInstances call answered in k pages issues exactly k calls, all
\* with the same filters and region, the first without token and each later
\* one with the token of the page before; no call follows a page without
\* token, and the result is the survivors of the k pages in page order.
C4_Pagination ==
    /\ \A c \in 1..Len(giCalls) :
        /\ giCalls[c].in.Filters = giCalls[1].in.Filters
        /\ giCalls[c].in.Region = giCalls[1].in.Region
        /\ giCalls[c].in.NextToken =
                IF c = 1 THEN NoToken ELSE giPages[c - 1].NextToken
    /\ \A p \in 1..(Len(giPages) - 1) : giPages[p].NextToken # NoToken
    /\ giState \in {"paging", "returned"} => Len(giCalls) = Len(giPages)
    /\ giState = "failed" => Len(giCalls) = Len(giPages) + 1
    /\ giState = "paging" => giPages[Len(giPages)].NextToken # NoToken
    /\ giState = "returned" =>
        /\ giPages[Len(giPages)].NextToken = NoToken
        /\ giRet = SurvivorsOfPages(giPages, giCalls[1].in.Region)

C4_Witness ==
    /\ giState = "returned"
    /\ Len(giPages) = MaxPages
    /\ Len(giCalls) = MaxPages
    /\ \A p \in 1..Len(giPages) : Len(giPages[p].Instances) > 0
    /\ giRet # <<>>
    /\ \E p \in 1..Len(giPages) :
        \E x \in SeqToSet(giPages[p].Instances) : Excluded(x)

\* C5: once an EC2 call of Discover has failed, Discover has returned an
\* error and no instances, whatever it had gathered, and the failed call is
\* the last call it issued: none follows and it is not issued again.
C5_AllOrNothing ==
    nfail > 0 =>
        /\ pc = "done"
        /\ result.status = "err"
        /\ result.instances = <<>>
        /\ nfail = 1
        /\ nlist = ncalls \/ giState = "failed"

C5_Witness ==
    /\ nfail = 1
    /\ giState = "failed"
    /\ ret # <<>>
    /\ giRet # <<>>
    /\ Len(giPages) > 0
    /\ result.status = "err"

ZeroRegions ==
    /\ extScope.isAws
    /\ \/ ~XAllRegions /\ Len(XScope.Regions.elems) = 0
       \/ XAllRegions /\ catalog = <<>>

\* C6: when region resolution yields zero regions, Discover returns the
\* "no regions to scan" error, issues no instance query, and never returns
\* a successful empty result.
C6_NoRegions ==
    ZeroRegions =>
        /\ result.status # "ok"
        /\ queries = <<>>
        /\ giCalls = <<>>
        /\ ncalls = nlist
        /\ (pc = "done" /\ nfail = 0) => result = Failed("no regions to scan")

C6_Witness ==
    /\ ZeroRegions
    /\ XAllRegions
    /\ pc = "done"
    /\ nlist = 1
    /\ result = Failed("no regions to scan")

Resolved ==
    /\ extScope.isAws
    /\ pc \in {"GetInstances", "done"}
    /\ ~(nlist = 1 /\ nfail = 1 /\ ncalls = 1)

\* the explicit region list of the scope as it stands
ExplicitRegionsKept ==
    LET xs == XScope.Regions.elems
    IN  /\ Len(regions) = Len(xs)
        /\ \A k \in 1..Len(xs) :
            /\ regions[k].name = xs[k].Name
            /\ Len(regions[k].vpcs) = Len(xs[k].Vpcs.elems)
            /\ \A j \in 1..Len(xs[k].Vpcs.elems) :
                LET v == xs[k].Vpcs.elems[j]
                IN  /\ regions[k].vpcs[j].id = v.Id
                    /\ Len(regions[k].vpcs[j].securityGroups)
                            = Len(v.SecurityGroups.elems)
                    /\ \A g \in 1..Len(v.SecurityGroups.elems) :
                        regions[k].vpcs[j].securityGroups[g].id
                            = v.SecurityGroups.elems[g].Id

EnabledCatalog == SelectSeq(catalog, LAMBDA r : r.enabled)

Occurrences(q, x) == Cardinality({k \in 1..Len(q) : q[k] = x})

\* C8: every matching instance is present exactly once in the result of a
\* successful Discover, also when the scope repeats a region or a VPC.
C8_ExactlyOnce ==
    Returned =>
        /\ SeqToSet(result.instances) \subseteq ManualSet
        /\ \A m \in ManualSet : Occurrences(result.instances, m) = 1

(***************************************************************************)
(* Properties of hasExcludeTags.                                           *)
(***************************************************************************)
\* C2: hasExcludeTags(E, T) is true exactly when E is not empty and every
\* pair of E is among T with the same key and the same value, letter case
\* included; so it is false for an empty E, for an empty T, and when one pair
\* of E is missing from T or differs in value.
C2_ExcludeRule ==
    exOut # "none" =>
        LET E == exIn.excludeTags
            T == exIn.instanceTags
            allThere == \A i \in 1..Len(E) :
                            \E j \in 1..Len(T) :
                                T[j].Key = E[i].Key /\ T[j].Value = E[i].Val
        IN  /\ exOut = "true" <=> (Len(E) > 0 /\ allThere)
            /\ Len(E) = 0 => exOut = "false"
            /\ Len(T) = 0 => exOut = "false"

C2_Witness ==
    /\ exOut = "true"
    /\ Len(exIn.excludeTags) = 2
    /\ Len(exIn.instanceTags) = 3
    /\ exIn.excludeTags[1] # exIn.excludeTags[2]

(***************************************************************************)
(* Properties of RunScanningJob.                                           *)
(***************************************************************************)
OwnerTag == [Key |-> "Owner", Value |-> "VMClarity"]
NameTag(id) == [Key |-> "Name", Value |-> "vmclarity-scanner-" \o id]

TagsOf(req, resourceType) ==
    {req.TagSpecifications[k].Tags :
        k \in {n \in 1..Len(req.TagSpecifications) :
                 req.TagSpecifications[n].ResourceType = resourceType}}

\* C9: every launch request RunScanningJob submits has a tag specification
\* for the instance and one for the volume, and each carries Owner=VMClarity.
C9_OwnershipTag ==
    \A n \in 1..Len(launches) :
        \A rt \in {"instance", "volume"} :
            /\ TagsOf(launches[n], rt) # {}
            /\ \A tags \in TagsOf(launches[n], rt) : OwnerTag \in SeqToSet(tags)

C9_Witness ==
    /\ Len(launches) = 1
    /\ runIn.config.KeyPairName = "k1"
    /\ ~launches[1].KeyName.isNil
    /\ runResult.status = "ok"

\* C10 as stated: the ownership tag and the Name tag are on the instance and
\* on the volume of every launch request.
C10_BothTagsOnBoth ==
    \A n \in 1..Len(launches) :
        \A rt \in {"instance", "volume"} :
            TagsOf(launches[n], rt) = {<<OwnerTag, NameTag(runIn.id)>>}

\* C10 amended: in every launch request the instance carries the ownership
\* tag and the tag Name=vmclarity-scanner-<target id>, and the volume carries
\* the ownership tag alone.
C10_NameTagOnInstance ==
    \A n \in 1..Len(launches) :
        /\ TagsOf(launches[n], "instance") = {<<OwnerTag, NameTag(runIn.id)>>}
        /\ TagsOf(launches[n], "volume") = {<<OwnerTag>>}

C10_Witness ==
    /\ Len(launches) = 1
    /\ runIn.id = "t1"
    /\ runIn.config.KeyPairName = ""
    /\ runResult.status = "err"

(***************************************************************************)
(* Properties of RunScanningJob: key pair, launch count, handle.           *)
(***************************************************************************)
\* C11: the launch request's key-pair field is set if and only if the
\* configured key pair name is non-empty, and then equals it; with an empty
\* name the field is left unset (no name, no default).
C11_KeyPair ==
    \A n \in 1..Len(launches) :
        LET KeyName == launches[n].KeyName
            name    == runIn.config.KeyPairName
        IN  /\ (~KeyName.isNil) <=> (name # "")
            /\ (~KeyName.isNil) => KeyName.name = name
            /\ KeyName.isNil => KeyName.name = ""

\* a launch was submitted with the configured key pair attached
C11_Witness ==
    /\ pc = "done"
    /\ Len(launches) = 1
    /\ runIn.config.KeyPairName = "k1"
    /\ launches[1].KeyName = [isNil |-> FALSE, name |-> "k1"]

(***************************************************************************)
(* Properties of the filters Discover sends.                               *)
(***************************************************************************)
XSelector == XScope.InstanceTagSelector.elems

\* C12: the inclusion filters of every query are one filter per selected
\* tag, in selector order, each named "tag:" + key with the tag's value as
\* its only value; no other filter of the query is a tag filter, so an empty
\* selector gives none.
C12_InclusionFilters ==
    \A q \in 1..Len(queries) :
        LET Filters == queries[q].Filters
        IN  /\ Len(Filters) >= Len(XSelector)
            /\ \A n \in 1..Len(XSelector) :
                Filters[n] = [Name   |-> "tag:" \o XSelector[n].Key,
                              Values |-> <<XSelector[n].Value>>]
            /\ \A n \in (Len(XSelector) + 1)..Len(Filters) :
                Filters[n].Name \in
                    {instanceStateFilterName, vpcIDFilterName, sgIDFilterName}

\* a query sent under a selector of two tags
C12_Witness ==
    /\ Len(queries) > 0
    /\ Len(XSelector) = 2
    /\ XSelector[1] # XSelector[2]
    /\ queries[1].Filters[2].Name = "tag:" \o XSelector[2].Key

StateFilters(Filters) ==
    {n \in 1..Len(Filters) : Filters[n].Name = instanceStateFilterName}

XStates ==
    IF XScope.ShouldScanStoppedInstances = "true"
    THEN {"running", "stopped"} ELSE {"running"}

\* C13: every query and every call Discover issues carries exactly one
\* instance-state-name filter; its values are running alone when the scope's
\* scan-stopped flag is false or absent, and running and stopped when it is
\* true, each once and no other state.
C13_StateFilter ==
    /\ \A q \in 1..Len(queries) :
        /\ Cardinality(StateFilters(queries[q].Filters)) = 1
        /\ \A n \in StateFilters(queries[q].Filters) :
            LET Values == queries[q].Filters[n].Values
            IN  SeqToSet(Values) = XStates /\ Len(Values) = Cardinality(XStates)
    /\ \A c \in 1..Len(giCalls) :
        /\ Cardinality(StateFilters(giCalls[c].in.Filters)) = 1
        /\ \A n \in StateFilters(giCalls[c].in.Filters) :
            SeqToSet(giCalls[c].in.Filters[n].Values) = XStates

\* a call issued under an explicit scan-stopped false, after one issued for a
\* VPC with security groups
C13_Witness ==
    /\ XScope.ShouldScanStoppedInstances = "false"
    /\ Len(queries) > 1
    /\ Len(giCalls) > 0
    /\ Len(queries[1].Filters) > 2
    /\ \E n \in 1..Len(giCalls[1].in.Filters) :
        giCalls[1].in.Filters[n] =
            [Name |-> "instance-state-name", Values |-> <<"running">>]

\* the VPC of the scope as given that query (i, j) is about
XVpcOf(i, j) == XScope.Regions.elems[i].Vpcs.elems[j]

\* what follows the base filters in a query
VPCPart(Filters) == SubSeq(Filters, Len(XSelector) + 2, Len(Filters))

\* C14: the filters of a VPC are a vpc-id filter whose only value is that
\* VPC's id, followed by an instance.group-id filter exactly when the VPC
\* declares at least one security group, its values being the ids of all the
\* declared groups in declared order; a VPC whose security group list is
\* absent or empty gives the vpc-id filter alone.
C14_VPCFilters ==
    \A q \in 1..Len(queries) :
        queries[q].vi # 0 =>
            LET vpc    == XVpcOf(queries[q].ri, queries[q].vi)
                groups == vpc.SecurityGroups.elems
                part   == VPCPart(queries[q].Filters)
            IN  /\ Len(part) = (IF Len(groups) > 0 THEN 2 ELSE 1)
                /\ part[1] = [Name |-> "vpc-id", Values |-> <<vpc.Id>>]
                /\ Len(groups) > 0 =>
                    /\ part[2].Name = "instance.group-id"
                    /\ Len(part[2].Values) = Len(groups)
                    /\ \A g \in 1..Len(groups) : part[2].Values[g] = groups[g].Id

\* one region's queries for a VPC with two security groups, then for one with
\* an empty list of them
C14_Witness ==
    /\ Len(queries) > 1
    /\ queries[1].vi = 1 /\ queries[2].vi = 2
    /\ Len(XVpcOf(queries[1].ri, 1).SecurityGroups.elems) = 2
    /\ ~XVpcOf(queries[2].ri, 2).SecurityGroups.isNil
    /\ Len(VPCPart(queries[1].Filters)) = 2
    /\ Len(VPCPart(queries[2].Filters)) = 1

(***************************************************************************)
(* Order of the queries of Discover.                                       *)
(***************************************************************************)
RECURSIVE ExpectedOrder(_, _)
\* the queries the resolved regions call for from region i on: <<region, 0>>
\* for a region without VPCs, <<region, vpc>> per VPC otherwise
ExpectedOrder(regs, i) ==
    IF i > Len(regs) THEN <<>>
    ELSE (IF Len(regs[i].vpcs) = 0 THEN << <<i, 0>> >>
          ELSE [j \in 1..Len(regs[i].vpcs) |-> <<i, j>>])
         \o ExpectedOrder(regs, i + 1)

\* the instances of the fixture, in the provider's order, that query (i, j)
\* is to give, picked by hand
QuerySurvivors(i, j) ==
    LET Wanted(inst) ==
            /\ inst.Region = regions[i].name
            /\ j # 0 =>
                /\ inst.VpcId = regions[i].vpcs[j].id
                /\ \/ Len(regions[i].vpcs[j].securityGroups) = 0
                   \/ \E g \in 1..Len(regions[i].vpcs[j].securityGroups) :
                        regions[i].vpcs[j].securityGroups[g].id \in inst.Groups
            /\ InAllowedState(inst) /\ Selected(inst) /\ ~Excluded(inst)
        hits == SelectSeq(fixture, Wanted)
    IN  [n \in 1..Len(hits) |->
            [id |-> hits[n].InstanceId, region |-> regions[i].name]]

RECURSIVE ConcatSurvivors(_)
ConcatSurvivors(order) ==
    IF Len(order) = 0 THEN <<>>
    ELSE QuerySurvivors(Head(order)[1], Head(order)[2])
         \o ConcatSurvivors(Tail(order))

QueryPos(q) == <<queries[q].ri, queries[q].vi>>

\* C15: the queries Discover has started are, in order, a beginning of the
\* queries the resolved regions call for (one region-wide query for a region
\* without VPCs, one per VPC in VPC order and no region-wide query otherwise),
\* each scoped to its region; the calls on record all belong to one query,
\* the latest, or the one before it when that one has returned its last page
\* and the latest has not been called yet; and a successful Discover has
\* started them all and returns the survivors of the queries concatenated in
\* that order.
C15_QueryOrder ==
    LET order == ExpectedOrder(regions, 1)
    IN  /\ Len(queries) <= Len(order)
        /\ \A q \in 1..Len(queries) :
            /\ QueryPos(q) = order[q]
            /\ queries[q].Region = regions[queries[q].ri].name
        /\ \A c \in 1..Len(giCalls) :
            /\ giCalls[c].in.Region = regions[giCalls[c].ri].name
            /\ <<giCalls[c].ri, giCalls[c].vi>> = <<giCalls[1].ri, giCalls[1].vi>>
        /\ Len(giCalls) = 0 => Len(queries) <= 1
        /\ Len(giCalls) > 0 =>
            LET p == <<giCalls[1].ri, giCalls[1].vi>>
            IN  \/ p = QueryPos(Len(queries))
                \/ /\ Len(queries) > 1
                   /\ p = QueryPos(Len(queries) - 1)
                   /\ pc = "GetInstances"
                   /\ giState = "returned"
                   /\ giPages[Len(giPages)].NextToken = NoToken
        /\ Returned =>
            /\ Len(queries) = Len(order)
            /\ result.instances = ConcatSurvivors(order)

\* a successful Discover over two regions, the second with VPCs, with a
\* query answered in several pages and instances from several queries
C15_Witness ==
    /\ Returned
    /\ Len(regions) = 2
    /\ Len(queries) = 3
    /\ queries[1].vi = 0
    /\ queries[2].vi = 1
    /\ Len(giPages) > 1
    /\ Len(result.instances) > 1
    /\ \E a, b \in 1..Len(result.instances) :
        result.instances[a].region # result.instances[b].region

(***************************************************************************)
(* Launches and handles of RunScanningJob.                                 *)
(***************************************************************************)
\* C16: a RunScanningJob invocation has submitted at most one launch call at
\* any time: none while the payload is being generated or when its
\* generation failed, exactly one once the invocation has returned otherwise;
\* an invocation that failed, on the payload or on the launch, returns an
\* error and no handle (no id, region or availability zone), and no launch
\* follows a failed one.
C16_AtMostOneLaunch ==
    /\ Len(launches) <= 1
    /\ pc = "RunScanningJob" => Len(launches) = 0
    /\ pc = "RunInstances" => Len(launches) = 0 /\ runResult.status = "none"
    /\ pc = "done" =>
        /\ runResult.status \in {"ok", "err"}
        /\ runResult.status = "ok" => Len(launches) = 1 /\ runResult.err = ""
        /\ runResult.status = "err" =>
            /\ runResult.err \in {"failed to generate cloud-init",
                                  "failed to run instances"}
            /\ runResult.err = "failed to generate cloud-init" => Len(launches) = 0
            /\ runResult.err = "failed to run instances" => Len(launches) = 1
            /\ runResult.id = "" /\ runResult.region = ""
            /\ runResult.availabilityZone = ""

\* the launch call failed: one launch on record, an error and no handle
C16_Witness ==
    /\ pc = "done"
    /\ runResult.status = "err"
    /\ runResult.err = "failed to run instances"
    /\ Len(launches) = 1
    /\ runResult.id = ""

Launched == pc = "done" /\ runResult.status = "ok"

\* C17: the handle of a successful RunScanningJob has the region argument as
\* its region, which is the region its one launch call was scoped to, and
\* the id and availability zone of the one instance in the provider's
\* answer; every handle GetInstances gathers and every handle Discover
\* returns has the region its query was scoped to, where the provider holds
\* an instance of that id.
C17_HandleRegion ==
    /\ Launched =>
        /\ runResult.region = runIn.region
        /\ Len(launches) = 1
        /\ launches[1].Region = runIn.region
        /\ Len(runOut.Instances) = 1
        /\ runResult.id = runOut.Instances[1].InstanceId
        /\ runResult.availabilityZone =
                runOut.Instances[1].Placement.AvailabilityZone
    /\ giState \in {"paging", "returned"} =>
        \A n \in 1..Len(giRet) :
            /\ giRet[n].region = giCalls[1].in.Region
            /\ \E p \in 1..Len(giPages) :
                \E x \in SeqToSet(giPages[p].Instances) :
                    x.InstanceId = giRet[n].id /\ x.Region = giRet[n].region
    /\ Returned =>
        \A n \in 1..Len(result.instances) :
            /\ \E q \in 1..Len(queries) :
                queries[q].Region = result.instances[n].region
            /\ \E x \in SeqToSet(fixture) :
                /\ x.InstanceId = result.instances[n].id
                /\ x.Region = result.instances[n].region

\* a launch in r2 answered by the provider with instance i-b in az2
C17_Witness ==
    /\ Launched
    /\ runIn.region = "r2"
    /\ launches[1].Region = "r2"
    /\ runOut.Instances[1].InstanceId = "i-b"
    /\ runResult = [status |-> "ok", err |-> "", id |-> "i-b", region |-> "r2",
                    availabilityZone |-> "az2"]

\* Discover returned handles of the two instances that share the id i1, one
\* per region
C17_DiscoverCase ==
    /\ Returned
    /\ \E a, b \in 1..Len(result.instances) :
        /\ result.instances[a] = [id |-> "i1", region |-> "r1"]
        /\ result.instances[b] = [id |-> "i1", region |-> "r2"]

(***************************************************************************)
(* Termination and number of calls of Discover.                            *)
(***************************************************************************)
\* every query on record was answered up to its page without token
QueriesAnswered == giState # "failed"

\* C18: with every EC2 call answered and every query's pages ending,
\* Discover eventually returns; and once it has returned with every query
\* answered up to its page without token, the number of EC2 calls it issued
\* is its number of region listings, 1 under all_regions and 0 otherwise,
\* plus the number of pages returned over all its queries.
C18_Terminates ==
    /\ <>(pc = "done")
    /\ [](pc = "done" /\ QueriesAnswered =>
            /\ ncalls = nlist + npages
            /\ nlist = (IF extScope.isAws /\ XAllRegions THEN 1 ELSE 0))

\* Discover returned after a region listing and three pages over two queries
C18_Witness ==
    /\ Returned
    /\ nlist = 1
    /\ Len(queries) = 2
    /\ npages = 3
    /\ ncalls = 4

(***************************************************************************)
(* Revisions of the scan estimations table under concurrent writers.       *)
(***************************************************************************)
\* C19: every write that succeeded stored the revision that follows the
\* one stored immediately before it, and no two writes that succeeded were
\* both checked, on their If-Match header, against the same stored revision:
\* no write takes the place of one its caller has not seen.
C19_NoLostUpdate ==
    /\ \A w \in 1..Len(writes) :
        writes[w].stored.Revision = writes[w].before.Revision + 1
    /\ \A v, w \in 1..Len(writes) :
        (v # w /\ writes[v].IfMatch # "nil" /\ writes[w].IfMatch # "nil")
            => writes[v].IfMatch # writes[w].IfMatch

\* two patches sent with If-Match "1" both succeeded; the State that the
\* first stored is no longer in the table
C19_LostUpdate ==
    /\ Len(writes) = 2
    /\ \A p \in Calls : reqs[p].pc = "done" /\ reqs[p].err = "nil"
    /\ \A p \in Calls : reqs[p].op = "Update" /\ reqs[p].IfMatch = "1"
    /\ writes[1].stored.State = "Done"
    /\ dbTable["e1"].State = "Pending"
    /\ dbTable["e1"].Revision = 2

====
